---------------------------- MODULE Spec2Model ----------------------------
(***************************************************************************)
(* mcp-kubernetes: main, startup configuration (pkg/config), the telemetry *)
(* Service (pkg/telemetry), the tool handler adapters (pkg/tools) and the  *)
(* command executor they call.                                             *)
(*                                                                         *)
(* A flag value that the code splits and trims is a sequence of chunks: a  *)
(* chunk is a separator (",", " ") or an atomic run of other characters.   *)
(* An error is its message; "nil" is the nil error.                        *)
(***************************************************************************)
EXTENDS Integers, Sequences, FiniteSets, TLC

VARIABLES
    mainpc,        \* position of main: "start", "parsed", "telemetry",
                   \* "serving", "exit"
    parseErr,      \* the error ParseFlags returned ("nil" when none)
    cfg,           \* the shared *config.ConfigData
    pc,            \* per handler call: position of the call
    handler,       \* per call: which adapter serves it and its injected name
    sent,          \* per call: the request as the caller sent it
    req,           \* per call: the request as the handler holds it
    cancelled,     \* per call: ctx.Done() of the ctx passed to the handler
    execCount,     \* per call: number of times executor.Execute was entered
    execArgs,      \* per call: the argument map executor.Execute received
    elapsed,       \* per call: time the subprocess has been running
    execRet,       \* per call: what executor.Execute returned
    ret,           \* per call: what the handler returned
    sinkBlocked,   \* per call: TrackToolInvocation is blocked and will not return
    invocations,   \* the calls TrackToolInvocation has received, in order
    env,           \* the process environment and --otlp-endpoint
    svc,           \* the telemetry Service
    sdk,           \* the tracer provider and the Application Insights
                   \* channel svc points to: shut down, closed
    top,           \* per goroutine: the Service method it is in or was
                   \* last in, with what the method saw, emitted and returned
    lastInit,      \* the Initialize call InitializeTelemetry made
    exit           \* how main left after telemetry was set up, and whether
                   \* Shutdown was invoked on the way

vars == <<mainpc, parseErr, cfg, pc, handler, sent, req, cancelled,
          execCount, execArgs, elapsed, execRet, ret, sinkBlocked,
          invocations, env, svc, sdk, top, lastInit, exit>>

telVars == <<env, svc, sdk, top, lastInit, exit>>

callVars == <<pc, handler, sent, req, cancelled, execCount, execArgs,
              elapsed, execRet, ret, sinkBlocked, invocations>>

-----------------------------------------------------------------------------
(* Bounds *)

\* largest --timeout value tried, in units of subprocess running time
MaxTimeout == 2

\* NewConfig's Timeout
DefaultTimeout == 60

\* the handler calls of a run
Calls == DOMAIN pc

-----------------------------------------------------------------------------
(* Strings as chunk sequences: strings.Split and strings.TrimSpace *)

RECURSIVE Split(_, _)
\* strings.Split(s, sep): the pieces between separators, empty pieces kept
Split(s, sep) ==
    IF \A i \in 1..Len(s) : s[i] # sep
    THEN <<s>>
    ELSE LET i == CHOOSE k \in 1..Len(s) :
                      s[k] = sep /\ \A j \in 1..(k - 1) : s[j] # sep
         IN <<SubSeq(s, 1, i - 1)>> \o Split(SubSeq(s, i + 1, Len(s)), sep)

RECURSIVE TrimSpace(_)
\* strings.TrimSpace(s): leading and trailing white space removed
TrimSpace(s) ==
    IF s = <<>> THEN s
    ELSE IF Head(s) = " " THEN TrimSpace(Tail(s))
    ELSE IF s[Len(s)] = " " THEN TrimSpace(SubSeq(s, 1, Len(s) - 1))
    ELSE s

-----------------------------------------------------------------------------
(* pkg/security, as pkg/config uses it *)

AccessLevelReadOnly == "ReadOnly"

AccessLevelReadWrite == "ReadWrite"

AccessLevelAdmin == "Admin"

AccessLevels == {AccessLevelReadOnly, AccessLevelReadWrite, AccessLevelAdmin}

\* the total order ReadOnly < ReadWrite < Admin
Rank(level) ==
    CASE level = AccessLevelReadOnly -> 0
      [] level = AccessLevelReadWrite -> 1
      [] level = AccessLevelAdmin -> 2

\* security.NewSecurityConfig(): no namespace restriction; the level it
\* starts with is overwritten by every ParseFlags that succeeds
NewSecurityConfig(level) ==
    [AccessLevel |-> level, allowedNamespaces |-> {}]

\* SecurityConfig.SetAllowedNamespaces: the comma-delimited list as a set
SetAllowedNamespaces(sc, namespaces) ==
    LET parts == Split(namespaces, ",")
    IN [sc EXCEPT !.allowedNamespaces =
            {TrimSpace(parts[i]) : i \in 1..Len(parts)} \ {<<>>}]

-----------------------------------------------------------------------------
(* pkg/telemetry: Config and Service. A pointer or interface value is      *)
(* "nil" or "set".                                                         *)

\* what a run can find in its environment and on its command line:
\* KUBERNETES_MCP_COLLECT_TELEMETRY, the instrumentation key, --otlp-endpoint
Envs ==
    [collectTelemetry   : BOOLEAN,
     instrumentationKey : {"", "key"},
     otlpEndpoint       : {"", "localhost:4317"}]

\* an environment with telemetry switched off and no collector
QuietEnv ==
    [collectTelemetry |-> FALSE, instrumentationKey |-> "", otlpEndpoint |-> ""]

\* the Config values the tests build a Service from
TelemetryConfigs ==
    [Enabled            : BOOLEAN,
     instrumentationKey : {"", "key"},
     OTLPEndpoint       : {"", "localhost:4317"}]

\* telemetry.NewConfig(serviceName, serviceVersion)
TelemetryNewConfig(e) ==
    [Enabled            |-> e.collectTelemetry,
     instrumentationKey |-> e.instrumentationKey,
     OTLPEndpoint       |-> ""]

\* Config.HasOTLP
HasOTLP(config) == config.OTLPEndpoint # ""

\* Config.HasApplicationInsights
HasApplicationInsights(config) ==
    config.Enabled /\ config.instrumentationKey # ""

\* Config.SetOTLPEndpoint
SetOTLPEndpoint(config, endpoint) == [config EXCEPT !.OTLPEndpoint = endpoint]

\* NewService(config)
NewService(config) ==
    [config            |-> config,
     tracer            |-> "nil",
     tracerProvider    |-> "nil",
     appInsightsClient |-> "nil",
     isInitialized     |-> FALSE]

\* no Service has been made yet
NoService == NewService(TelemetryNewConfig(QuietEnv))

\* the provider and the channel of a Service that has just been made
NewSdk == [providerShutdown |-> FALSE, channelClosed |-> FALSE]

\* how resource.New and otlptracegrpc.New can end for a Service: neither is
\* called without an OTLP endpoint
Failures(s) ==
    IF HasOTLP(s.config)
    THEN {[resourceErr |-> r, exporterErr |-> e] :
              r \in {"nil", "resource error"}, e \in {"nil", "exporter error"}}
    ELSE {[resourceErr |-> "nil", exporterErr |-> "nil"]}

\* initializeTracing returning the exporter's error instead of logging it
initializeTracing_ExporterFatal(s, resourceErr, exporterErr) ==
    IF ~HasOTLP(s.config) THEN [svc |-> s, err |-> "nil"]
    ELSE IF resourceErr # "nil"
    THEN [svc |-> s, err |-> "failed to create resource"]
    ELSE IF exporterErr # "nil"
    THEN [svc |-> s, err |-> "failed to create exporter"]
    ELSE [svc |-> [s EXCEPT !.tracerProvider = "set", !.tracer = "set"],
          err |-> "nil"]

\* Service.initializeTracing: a failed exporter is logged and left out, the
\* provider and the tracer are made all the same
initializeTracing(s, resourceErr, exporterErr) ==
    IF ~HasOTLP(s.config) THEN [svc |-> s, err |-> "nil"]
    ELSE IF resourceErr # "nil"
    THEN [svc |-> s, err |-> "failed to create resource"]
    ELSE [svc |-> [s EXCEPT !.tracerProvider = "set", !.tracer = "set"],
          err |-> "nil"]

\* Service.initializeApplicationInsights
initializeApplicationInsights(s) ==
    IF ~s.config.Enabled THEN s
    ELSE [s EXCEPT !.appInsightsClient = "set"]

\* Service.Initialize: the Service it leaves and the error it returns
Initialize(s, resourceErr, exporterErr) ==
    LET tracing == initializeTracing(s, resourceErr, exporterErr)
    IN IF tracing.err # "nil"
       THEN [svc |-> tracing.svc, err |-> "failed to initialize tracing"]
       ELSE [svc |-> [(IF HasApplicationInsights(s.config)
                       THEN initializeApplicationInsights(tracing.svc)
                       ELSE tracing.svc) EXCEPT !.isInitialized = TRUE],
             err |-> "nil"]

\* the provider and the channel after Initialize: the ones Initialize made
\* are new, the others are the ones the Service had
SdkAfterInitialize(s, after, sd) ==
    [providerShutdown |->
         IF after.tracerProvider # "nil" /\ HasOTLP(s.config) /\ after.isInitialized
         THEN FALSE ELSE sd.providerShutdown,
     channelClosed |->
         IF /\ after.appInsightsClient # "nil"
            /\ HasApplicationInsights(s.config)
            /\ after.isInitialized
         THEN FALSE ELSE sd.channelClosed]

\* the tracking methods with their first check left out
TrackGuard_Open(s) == TRUE

\* if !s.isInitialized { return }: TRUE when the method goes on
TrackGuard(s) == s.isInitialized

\* the span a tracking method starts: late when the provider it is started
\* on has been shut down
SpanEmitted(s, sd) ==
    IF HasOTLP(s.config) /\ s.tracer # "nil"
    THEN {[kind |-> "span", late |-> sd.providerShutdown]}
    ELSE {}

\* the event a tracking method submits: late when the channel it goes to has
\* been closed
EventEmitted(s, sd) ==
    IF HasApplicationInsights(s.config) /\ s.appInsightsClient # "nil"
    THEN {[kind |-> "event", late |-> sd.channelClosed]}
    ELSE {}

\* TrackToolInvocation and TrackServiceStartup run without interruption
TrackEmits(s, sd) ==
    IF TrackGuard(s) THEN SpanEmitted(s, sd) \cup EventEmitted(s, sd) ELSE {}

\* Service.StartActivity: (context.Context, Span)
StartActivity(s) ==
    IF ~s.isInitialized \/ s.tracer = "nil"
    THEN [ctx |-> "caller", span |-> "noop"]
    ELSE [ctx |-> "derived", span |-> "started"]

\* Shutdown: <-s.appInsightsClient.Channel().Close(5 * time.Second)
CloseChannel(s, sd) ==
    IF HasApplicationInsights(s.config) /\ s.appInsightsClient # "nil"
    THEN [sd EXCEPT !.channelClosed = TRUE]
    ELSE sd

\* how tracerProvider.Shutdown can end for a Service
ProviderErrs(s) ==
    IF s.tracerProvider # "nil" THEN {"nil", "shutdown error"} ELSE {"nil"}

\* Shutdown leaving the flag as it is
ShutdownDone_FlagKept(s) == s

\* Shutdown: s.isInitialized = false
ShutdownDone(s) == [s EXCEPT !.isInitialized = FALSE]

\* Shutdown from the tracer provider on: a provider that fails to shut down
\* is shut down all the same, and the flag stays
ShutdownTracerProvider(s, sd, providerErr) ==
    IF s.tracerProvider # "nil"
    THEN IF providerErr # "nil"
         THEN [svc |-> s,
               sdk |-> [sd EXCEPT !.providerShutdown = TRUE],
               err |-> "failed to shutdown tracer provider"]
         ELSE [svc |-> ShutdownDone(s),
               sdk |-> [sd EXCEPT !.providerShutdown = TRUE],
               err |-> "nil"]
    ELSE [svc |-> ShutdownDone(s), sdk |-> sd, err |-> "nil"]

\* Service.Shutdown run without interruption
Shutdown(s, sd, providerErr) ==
    IF ~s.isInitialized THEN [svc |-> s, sdk |-> sd, err |-> "nil"]
    ELSE ShutdownTracerProvider(s, CloseChannel(s, sd), providerErr)

\* a goroutine that is in no method of the Service and has called none
Idle ==
    [op |-> "none", at |-> "idle", sawInit |-> FALSE, err |-> "nil",
     ctx |-> "none", span |-> "none", emitted |-> {}]

Threads == DOMAIN top

\* what the steps of the Service's methods leave alone
ServiceFrame == UNCHANGED <<mainpc, parseErr, cfg, callVars, env, lastInit, exit>>

\* goroutine t calls Initialize
ServiceInitialize(t) ==
    /\ top[t].at = "idle"
    /\ \E f \in Failures(svc) :
           LET r == Initialize(svc, f.resourceErr, f.exporterErr)
           IN /\ svc' = r.svc
              /\ sdk' = SdkAfterInitialize(svc, r.svc, sdk)
              /\ top' = [top EXCEPT ![t] =
                     [Idle EXCEPT !.op = "Initialize",
                                  !.sawInit = svc.isInitialized,
                                  !.err = r.err]]
    /\ ServiceFrame

\* goroutine t calls StartActivity
ServiceStartActivity(t) ==
    /\ top[t].at = "idle"
    /\ top' = [top EXCEPT ![t] =
           [Idle EXCEPT !.op = "StartActivity",
                        !.sawInit = svc.isInitialized,
                        !.ctx = StartActivity(svc).ctx,
                        !.span = StartActivity(svc).span]]
    /\ UNCHANGED <<svc, sdk>>
    /\ ServiceFrame

\* goroutine t enters a tracking method and reads isInitialized
Track(t, op) ==
    /\ top[t].at = "idle"
    /\ top' = [top EXCEPT ![t] =
           [Idle EXCEPT !.op = op,
                        !.sawInit = svc.isInitialized,
                        !.at = IF TrackGuard(svc) THEN "span" ELSE "idle"]]
    /\ UNCHANGED <<svc, sdk>>
    /\ ServiceFrame

\* Service.TrackToolInvocation, entered by goroutine t
TrackToolInvocation(t) == Track(t, "TrackToolInvocation")

\* Service.TrackServiceStartup, entered by goroutine t
TrackServiceStartup(t) == Track(t, "TrackServiceStartup")

\* the tracking method of goroutine t starts its span, if it has a tracer
TrackSpan(t) ==
    /\ top[t].at = "span"
    /\ top' = [top EXCEPT ![t].emitted = @ \cup SpanEmitted(svc, sdk),
                          ![t].at = "event"]
    /\ UNCHANGED <<svc, sdk>>
    /\ ServiceFrame

\* the tracking method of goroutine t submits its event, if it has a client,
\* and returns
TrackEvent(t) ==
    /\ top[t].at = "event"
    /\ top' = [top EXCEPT ![t].emitted = @ \cup EventEmitted(svc, sdk),
                          ![t].at = "idle"]
    /\ UNCHANGED <<svc, sdk>>
    /\ ServiceFrame

\* goroutine t enters Shutdown: it returns at once when the Service is not
\* initialized, else it closes the Application Insights channel
ShutdownBegin(t) ==
    /\ top[t].at = "idle"
    /\ IF ~svc.isInitialized
       THEN /\ top' = [top EXCEPT ![t] = [Idle EXCEPT !.op = "Shutdown"]]
            /\ sdk' = sdk
       ELSE /\ top' = [top EXCEPT ![t] =
                   [Idle EXCEPT !.op = "Shutdown", !.sawInit = TRUE,
                                !.at = "provider"]]
            /\ sdk' = CloseChannel(svc, sdk)
    /\ svc' = svc
    /\ ServiceFrame

\* Shutdown of goroutine t shuts the tracer provider down, clears the flag
\* unless that failed, and returns
ShutdownEnd(t) ==
    /\ top[t].at = "provider"
    /\ \E providerErr \in ProviderErrs(svc) :
           LET r == ShutdownTracerProvider(svc, sdk, providerErr)
           IN /\ svc' = r.svc
              /\ sdk' = r.sdk
              /\ top' = [top EXCEPT ![t].at = "idle", ![t].err = r.err]
    /\ ServiceFrame

-----------------------------------------------------------------------------
(* pkg/config *)

\* values of --access-level
AccessLevelFlags ==
    {"readonly", "readwrite", "admin", "", "READONLY", "ReadOnly", "invalid"}

\* values of --allow-namespaces
AllowNamespacesFlags == {<<>>, <<"prod", ",", " ", "dev">>}

\* values of --additional-tools
AdditionalToolsFlags == {<<>>, <<"helm">>, <<"helm", ",", " ", "cilium", ",">>}

\* values of --timeout
TimeoutFlags == 1..MaxTimeout

NewConfig(level) ==
    [AdditionalTools  |-> {},
     Timeout          |-> DefaultTimeout,
     SecurityConfig   |-> NewSecurityConfig(level),
     AccessLevel      |-> "readonly",
     AllowNamespaces  |-> <<>>,
     OTLPEndpoint     |-> "",
     TelemetryService |-> "nil"]

\* the switch with the flag compared without regard to case
ParseAccessLevel_CaseInsensitive(accessLevel) ==
    CASE accessLevel \in {"readonly", "READONLY", "ReadOnly"} ->
             AccessLevelReadOnly
      [] accessLevel = "readwrite" -> AccessLevelReadWrite
      [] accessLevel = "admin" -> AccessLevelAdmin
      [] OTHER -> "invalid"

\* the switch with the "readwrite" case assigning the admin level
ParseAccessLevel_ReadWriteAsAdmin(accessLevel) ==
    CASE accessLevel = "readonly" -> AccessLevelReadOnly
      [] accessLevel = "readwrite" -> AccessLevelAdmin
      [] accessLevel = "admin" -> AccessLevelAdmin
      [] OTHER -> "invalid"

\* the switch on cfg.AccessLevel: the level it selects, "invalid" in the
\* default branch
ParseAccessLevel(accessLevel) ==
    CASE accessLevel = "readonly" -> AccessLevelReadOnly
      [] accessLevel = "readwrite" -> AccessLevelReadWrite
      [] accessLevel = "admin" -> AccessLevelAdmin
      [] OTHER -> "invalid"

\* the loop over strings.Split(*additionalTools, ","): the keys set to true
ParseAdditionalTools(tools, additionalTools) ==
    IF additionalTools = <<>> THEN tools
    ELSE LET parts == Split(additionalTools, ",")
         IN tools \cup ({TrimSpace(parts[i]) : i \in 1..Len(parts)} \ {<<>>})

\* the allow-list left as NewSecurityConfig made it, whatever the flag
ApplyAllowNamespaces_Ignored(sc, allowNamespaces) == sc

\* if cfg.AllowNamespaces != "" { cfg.SecurityConfig.SetAllowedNamespaces(...) }
ApplyAllowNamespaces(sc, allowNamespaces) ==
    IF allowNamespaces # <<>>
    THEN SetAllowedNamespaces(sc, allowNamespaces)
    ELSE sc

\* the error ParseFlags returns in the default branch
InvalidAccessLevelError ==
    "invalid access level. Valid values are: readonly, readwrite, admin"

\* ConfigData.ParseFlags, called once by main, which exits when it fails;
\* --otlp-endpoint is the one env holds
ParseFlags ==
    /\ mainpc = "start"
    /\ \E accessLevel \in AccessLevelFlags,
          allowNamespaces \in AllowNamespacesFlags,
          additionalTools \in AdditionalToolsFlags,
          timeout \in TimeoutFlags :
          LET parsed == [cfg EXCEPT !.AccessLevel = accessLevel,
                                    !.AllowNamespaces = allowNamespaces,
                                    !.OTLPEndpoint = env.otlpEndpoint,
                                    !.Timeout = timeout]
              level == ParseAccessLevel(accessLevel)
          IN IF level = "invalid"
             THEN /\ cfg' = parsed
                  /\ parseErr' = InvalidAccessLevelError
                  /\ mainpc' = "exit"
             ELSE /\ cfg' =
                       [parsed EXCEPT
                          !.SecurityConfig =
                              ApplyAllowNamespaces(
                                  [@ EXCEPT !.AccessLevel = level],
                                  allowNamespaces),
                          !.AdditionalTools =
                              ParseAdditionalTools(@, additionalTools)]
                  /\ parseErr' = "nil"
                  /\ mainpc' = "parsed"
    /\ UNCHANGED <<telVars, callVars>>

\* the Config InitializeTelemetry hands to NewService
TelemetryConfig(e, c) ==
    IF c.OTLPEndpoint # ""
    THEN SetOTLPEndpoint(TelemetryNewConfig(e), c.OTLPEndpoint)
    ELSE TelemetryNewConfig(e)

\* ConfigData.InitializeTelemetry: NewService, Initialize, whose error is
\* only logged, and TrackServiceStartup
InitializeTelemetry ==
    /\ mainpc = "parsed"
    /\ \E f \in Failures(NewService(TelemetryConfig(env, cfg))) :
           LET r == Initialize(NewService(TelemetryConfig(env, cfg)),
                               f.resourceErr, f.exporterErr)
           IN /\ svc' = r.svc
              /\ sdk' = NewSdk
              /\ lastInit' = [called |-> TRUE, err |-> r.err,
                              resourceErr |-> f.resourceErr,
                              exporterErr |-> f.exporterErr]
              /\ top' = [top EXCEPT !["main"] =
                     [Idle EXCEPT !.op = "TrackServiceStartup",
                                  !.sawInit = r.svc.isInitialized,
                                  !.emitted = TrackEmits(r.svc, NewSdk)]]
    /\ cfg' = [cfg EXCEPT !.TelemetryService = "sink"]
    /\ mainpc' = "telemetry"
    /\ UNCHANGED <<parseErr, env, exit, callVars>>

\* main: server.NewService(cfg) and service.Initialize(), whose error ends
\* the process with os.Exit(1)
ServerInitialize ==
    /\ mainpc = "telemetry"
    /\ \E err \in {"nil", "initialize error"} :
           IF err # "nil"
           THEN /\ mainpc' = "exit"
                /\ exit' = [path |-> "initialize error", shutdown |-> FALSE]
           ELSE /\ mainpc' = "serving"
                /\ exit' = exit
    /\ UNCHANGED <<parseErr, cfg, env, svc, sdk, top, lastInit, callVars>>

\* main returns and its deferred function runs: Shutdown, when there is a
\* TelemetryService
ReturnFromMain(path) ==
    /\ mainpc' = "exit"
    /\ IF cfg.TelemetryService # "nil"
       THEN \E providerErr \in ProviderErrs(svc) :
                LET r == Shutdown(svc, sdk, providerErr)
                IN /\ svc' = r.svc
                   /\ sdk' = r.sdk
                   /\ top' = [top EXCEPT !["main"] =
                          [Idle EXCEPT !.op = "Shutdown",
                                       !.sawInit = svc.isInitialized,
                                       !.err = r.err]]
                   /\ exit' = [path |-> path, shutdown |-> TRUE]
       ELSE /\ exit' = [path |-> path, shutdown |-> FALSE]
            /\ UNCHANGED <<svc, sdk, top>>
    /\ UNCHANGED <<parseErr, cfg, env, lastInit, callVars>>

\* main: case <-sigChan: cancel(), and main returns
Signal ==
    /\ mainpc = "serving"
    /\ ReturnFromMain("signal")

\* main: case err := <-errChan with a nil error: main returns
RunReturnsNil ==
    /\ mainpc = "serving"
    /\ ReturnFromMain("run returned nil")

\* main: case err := <-errChan with an error: log.Fatalf ends the process
RunReturnsError ==
    /\ mainpc = "serving"
    /\ mainpc' = "exit"
    /\ exit' = [path |-> "run error", shutdown |-> FALSE]
    /\ UNCHANGED <<parseErr, cfg, env, svc, sdk, top, lastInit, callVars>>

\* a configuration that is served without InitializeTelemetry:
\* TelemetryService stays nil
WithoutTelemetry ==
    /\ mainpc = "parsed"
    /\ mainpc' = "serving"
    /\ UNCHANGED <<parseErr, cfg, telVars, callVars>>

-----------------------------------------------------------------------------
(* Requests: mcp.CallToolRequest *)

StrVal(s) == [t |-> "string", v |-> s]

\* an argument value that is not a string
IntVal == [t |-> "int", v |-> "42"]

ArgKeys == {"operation", "namespace", "_tool_name"}

ArgValues(key) ==
    CASE key = "operation" ->
             {StrVal("get"), StrVal("apply"), StrVal("delete"),
              StrVal("rollout"), IntVal}
      [] key = "namespace" -> {StrVal("dev"), StrVal("kube-system")}
      [] key = "_tool_name" -> {StrVal("helm")}

\* the argument maps a caller sends: every key is optional
ArgMaps ==
    UNION {{m \in [S -> UNION {ArgValues(k) : k \in ArgKeys}] :
               \A k \in S : m[k] \in ArgValues(k)} : S \in SUBSET ArgKeys}

\* req.Params.Arguments is of type any: a JSON object decodes to a non-nil
\* map, anything else to a value of another type (a nil map typed as
\* map[string]interface{} is not a value JSON decoding produces)
Arguments ==
    {[typeName |-> "map[string]interface {}", m |-> m] : m \in ArgMaps}
    \cup {[typeName |-> "string", m |-> <<>>],
          [typeName |-> "<nil>", m |-> <<>>]}

Requests == {[Name |-> "request-tool-name", Arguments |-> a] : a \in Arguments}

\* the names CreateToolHandlerWithName is given at registration
ToolNames == {"kubectl", "helm"}

Handlers ==
    {[kind |-> "CreateToolHandler", toolName |-> ""]}
    \cup {[kind |-> "CreateToolHandlerWithName", toolName |-> t] : t \in ToolNames}

NoRequest == [Name |-> "", Arguments |-> [typeName |-> "<nil>", m |-> <<>>]]

NoHandler == [kind |-> "", toolName |-> ""]

\* nothing returned yet
NoResult == [isNil |-> TRUE, IsError |-> FALSE, text |-> ""]

NoReturn == [returned |-> FALSE, result |-> NoResult, err |-> "nil"]

-----------------------------------------------------------------------------
(* pkg/tools: the handler adapters *)

\* the type assertion with its ok result ignored
IsMap_Unchecked(arguments) == TRUE

\* args, ok := req.Params.Arguments.(map[string]interface{})
IsMap(arguments) == arguments.typeName = "map[string]interface {}"

\* fmt.Errorf("arguments must be a map[string]interface{}, got %T", ...)
ArgumentsError(arguments) ==
    IF arguments.typeName = "string"
    THEN "arguments must be a map[string]interface{}, got string"
    ELSE "arguments must be a map[string]interface{}, got <nil>"

\* mcp.NewToolResultError(text)
NewToolResultError(text) == [isNil |-> FALSE, IsError |-> TRUE, text |-> text]

\* mcp.NewToolResultText(text)
NewToolResultText(text) == [isNil |-> FALSE, IsError |-> FALSE, text |-> text]

\* the injected name written only when the caller sent none
InjectToolName_KeepCaller(args, toolName) ==
    [k \in DOMAIN args \cup {"_tool_name"} |->
        IF k \in DOMAIN args THEN args[k] ELSE StrVal(toolName)]

\* the argument map replaced by one that holds the injected name alone
InjectToolName_Clobber(args, toolName) ==
    [k \in {"_tool_name"} |-> StrVal(toolName)]

\* args["_tool_name"] = toolName
InjectToolName(args, toolName) ==
    [k \in DOMAIN args \cup {"_tool_name"} |->
        IF k = "_tool_name" THEN StrVal(toolName) ELSE args[k]]

\* the operation read without the string assertion
Operation_AnyType(args) ==
    IF "operation" \in DOMAIN args THEN args["operation"].v ELSE ""

\* operation, _ := args["operation"].(string)
Operation(args) ==
    IF "operation" \in DOMAIN args /\ args["operation"].t = "string"
    THEN args["operation"].v
    ELSE ""

\* cfg.TelemetryService != nil
HasTelemetry(c) == c.TelemetryService # "nil"

\* the invalid-arguments branch returning without its tracking call
InvalidBranchTracks_Untracked(c) == FALSE

\* the invalid-arguments branch: if cfg.TelemetryService != nil { Track... }
InvalidBranchTracks(c) == HasTelemetry(c)

\* the tracking call made without the nil check
ExecutedBranchTracks_Unguarded(c) == TRUE

\* after executor.Execute: if cfg.TelemetryService != nil { Track... }
ExecutedBranchTracks(c) == HasTelemetry(c)

\* the tool name the handler reports when the arguments are not a map
InvalidToolName(h, r) == r.Name

\* the tool name the handler reports after executor.Execute returned
ExecutedToolName(h, r) ==
    IF h.kind = "CreateToolHandlerWithName" THEN h.toolName ELSE r.Name

\* the success argument computed from a result the calls in flight share
Success_Shared(err) == \A c \in DOMAIN execRet : execRet[c].err = "nil"

\* the success argument passed as the constant true
Success_Always(err) == TRUE

\* the success argument of TrackToolInvocation: err == nil
Success(err) == err = "nil"

\* cfg.TelemetryService.TrackToolInvocation(ctx, toolName, operation, success)
\* as the sink receives it
Invocation(call, toolName, operation, success) ==
    [call |-> call, toolName |-> toolName, operation |-> operation,
     success |-> success]

\* the tail without its err != nil branch
HandlerResult_ErrorAsText(result, err) == NewToolResultText(result)

\* the tail of both handlers: an error result for an error, else the text
HandlerResult(result, err) ==
    IF err # "nil" THEN NewToolResultError(err) ELSE NewToolResultText(result)

\* return result, nil
Return(result) == [returned |-> TRUE, result |-> result, err |-> "nil"]

\* the arguments as the handler passes them to executor.Execute
ExecuteArgs(h, args) ==
    IF h.kind = "CreateToolHandlerWithName"
    THEN InjectToolName(args, h.toolName)
    ELSE args

\* A handler is called: the type assertion, then either the tracking call of
\* the invalid-arguments branch or the call of executor.Execute
HandlerCall(c, h, r) ==
    /\ mainpc = "serving"
    /\ pc[c] = "idle"
    /\ handler' = [handler EXCEPT ![c] = h]
    /\ sent' = [sent EXCEPT ![c] = r]
    /\ IF ~IsMap(r.Arguments)
       THEN /\ req' = [req EXCEPT ![c] = r]
            /\ IF InvalidBranchTracks(cfg)
               THEN /\ invocations' = Append(invocations,
                          Invocation(c, InvalidToolName(h, r), "", FALSE))
                    /\ pc' = [pc EXCEPT ![c] = "tracking_invalid"]
                    /\ ret' = ret
               ELSE /\ ret' = [ret EXCEPT ![c] =
                          Return(NewToolResultError(ArgumentsError(r.Arguments)))]
                    /\ pc' = [pc EXCEPT ![c] = "done"]
                    /\ invocations' = invocations
            /\ UNCHANGED <<execCount, execArgs, elapsed>>
       ELSE /\ req' = [req EXCEPT ![c] =
                  [r EXCEPT !.Arguments.m = ExecuteArgs(h, r.Arguments.m)]]
            /\ execArgs' = [execArgs EXCEPT ![c] = ExecuteArgs(h, r.Arguments.m)]
            /\ execCount' = [execCount EXCEPT ![c] = @ + 1]
            /\ elapsed' = [elapsed EXCEPT ![c] = 0]
            /\ pc' = [pc EXCEPT ![c] = "executing"]
            /\ UNCHANGED <<ret, invocations>>
    /\ UNCHANGED <<telVars, mainpc, parseErr, cfg, cancelled, execRet, sinkBlocked>>

\* CreateToolHandler(executor, cfg)(ctx, req)
CreateToolHandler(c) ==
    \E r \in Requests :
        HandlerCall(c, [kind |-> "CreateToolHandler", toolName |-> ""], r)

\* CreateToolHandlerWithName(executor, cfg, toolName)(ctx, req)
CreateToolHandlerWithName(c) ==
    \E t \in ToolNames, r \in Requests :
        HandlerCall(c, [kind |-> "CreateToolHandlerWithName", toolName |-> t], r)

\* executor.Execute has returned: the tracking call, or with no sink the
\* rest of the handler
AfterExecute(c) ==
    /\ pc[c] = "executed"
    /\ IF ExecutedBranchTracks(cfg)
       THEN /\ invocations' = Append(invocations,
                  Invocation(c, ExecutedToolName(handler[c], req[c]),
                             Operation(req[c].Arguments.m),
                             Success(execRet[c].err)))
            /\ pc' = [pc EXCEPT ![c] = "tracking"]
            /\ ret' = ret
       ELSE /\ ret' = [ret EXCEPT ![c] =
                  Return(HandlerResult(execRet[c].result, execRet[c].err))]
            /\ pc' = [pc EXCEPT ![c] = "done"]
            /\ invocations' = invocations
    /\ UNCHANGED <<telVars, mainpc, parseErr, cfg, handler, sent, req, cancelled,
                   execCount, execArgs, elapsed, execRet, sinkBlocked>>

\* TrackToolInvocation returns to the handler, which returns its result
TrackReturn(c) ==
    /\ pc[c] \in {"tracking", "tracking_invalid"}
    /\ ~sinkBlocked[c]
    /\ ret' = [ret EXCEPT ![c] =
          IF pc[c] = "tracking_invalid"
          THEN Return(NewToolResultError(ArgumentsError(req[c].Arguments)))
          ELSE Return(HandlerResult(execRet[c].result, execRet[c].err))]
    /\ pc' = [pc EXCEPT ![c] = "done"]
    /\ UNCHANGED <<telVars, mainpc, parseErr, cfg, handler, sent, req, cancelled,
                   execCount, execArgs, elapsed, execRet, sinkBlocked,
                   invocations>>

\* the sink blocks inside TrackToolInvocation (its channel send is not taken)
TrackBlocks(c) ==
    /\ pc[c] \in {"tracking", "tracking_invalid"}
    /\ ~sinkBlocked[c]
    /\ sinkBlocked' = [sinkBlocked EXCEPT ![c] = TRUE]
    /\ UNCHANGED <<telVars, mainpc, parseErr, cfg, pc, handler, sent, req, cancelled,
                   execCount, execArgs, elapsed, execRet, ret, invocations>>

\* the caller cancels the ctx it passed to the handler, or its deadline passes
Cancel(c) ==
    /\ pc[c] \notin {"idle", "done"}
    /\ ~cancelled[c]
    /\ cancelled' = [cancelled EXCEPT ![c] = TRUE]
    /\ UNCHANGED <<telVars, mainpc, parseErr, cfg, pc, handler, sent, req, execCount,
                   execArgs, elapsed, execRet, ret, sinkBlocked, invocations>>

-----------------------------------------------------------------------------
(* The command executor behind tools.CommandExecutor: Execute(args, cfg) *)

\* the tool a call is for: the injected name, else the executor's own tool
ExecTool(args) ==
    IF "_tool_name" \in DOMAIN args /\ args["_tool_name"].t = "string"
    THEN args["_tool_name"].v
    ELSE "kubectl"

\* kubectl is always enabled, the others on request
EnabledTools(c) == {<<"kubectl">>} \cup c.AdditionalTools

\* the level an operation needs; an unknown operation needs the highest
RequiredLevel(toolName, operation) ==
    CASE operation \in {"get", "describe", "list", "logs", "top"} ->
             AccessLevelReadOnly
      [] operation \in {"apply", "create", "patch", "scale", "label"} ->
             AccessLevelReadWrite
      [] OTHER -> AccessLevelAdmin

\* Access Policy Model, Check: permit iff granted >= required
AccessCheck(granted, required) == Rank(granted) >= Rank(required)

\* Namespace Scope Guard, Check: the verdicts it can give. With a non-empty
\* allow-list and no namespace in the request the policy is the
\* implementer's choice, so both verdicts are possible
NamespaceCheck(args, allowed) ==
    IF allowed = {} THEN {TRUE}
    ELSE IF "namespace" \notin DOMAIN args THEN {TRUE, FALSE}
    ELSE LET namespace == <<args["namespace"].v>>
         IN IF namespace \in allowed THEN {TRUE} ELSE {FALSE}

\* the outcomes of the checks that precede the subprocess: "nil" when the
\* request passes them all, else the first failure
Verdicts(args, c) ==
    IF <<ExecTool(args)>> \notin EnabledTools(c) THEN {"ToolNotEnabled"}
    ELSE IF ~AccessCheck(c.SecurityConfig.AccessLevel,
                         RequiredLevel(ExecTool(args), Operation(args)))
    THEN {"AccessDenied"}
    ELSE {IF ok THEN "nil" ELSE "NamespaceNotAllowed" :
              ok \in NamespaceCheck(args, c.SecurityConfig.allowedNamespaces)}

\* what Execute returns: (string, error)
ExecuteReturn(result, err) == [result |-> result, err |-> err]

NoExecuteReturn == ExecuteReturn("", "nil")

\* the text the subprocess prints
Outputs == {"pod-list"}

Returned(c, r) ==
    /\ execRet' = [execRet EXCEPT ![c] = r]
    /\ pc' = [pc EXCEPT ![c] = "executed"]
    /\ UNCHANGED <<telVars, mainpc, parseErr, cfg, handler, sent, req, cancelled,
                   execCount, execArgs, elapsed, ret, sinkBlocked, invocations>>

\* a check fails: Execute returns the failure and spawns nothing
ExecuteReject(c) ==
    /\ pc[c] = "executing"
    /\ elapsed[c] = 0
    /\ \E e \in Verdicts(execArgs[c], cfg) \ {"nil"} :
           Returned(c, ExecuteReturn("", e))

\* the subprocess cannot be started
ExecuteLaunchFailed(c) ==
    /\ pc[c] = "executing"
    /\ elapsed[c] = 0
    /\ "nil" \in Verdicts(execArgs[c], cfg)
    /\ Returned(c, ExecuteReturn("", "LaunchFailed"))

\* the subprocess runs on, short of the deadline
ExecuteRun(c) ==
    /\ pc[c] = "executing"
    /\ "nil" \in Verdicts(execArgs[c], cfg)
    /\ elapsed[c] < cfg.Timeout
    /\ elapsed' = [elapsed EXCEPT ![c] = @ + 1]
    /\ UNCHANGED <<telVars, mainpc, parseErr, cfg, pc, handler, sent, req, cancelled,
                   execCount, execArgs, execRet, ret, sinkBlocked, invocations>>

\* the subprocess exits before the deadline: with 0, its output is the
\* result; otherwise the failure
ExecuteExit(c) ==
    /\ pc[c] = "executing"
    /\ "nil" \in Verdicts(execArgs[c], cfg)
    /\ elapsed[c] < cfg.Timeout
    /\ \E out \in Outputs, code \in {0, 1} :
           Returned(c, IF code = 0 THEN ExecuteReturn(out, "nil")
                       ELSE ExecuteReturn("", "ExecutionFailed"))

\* the deadline passes: the subprocess is killed and its output discarded
ExecuteTimeout(c) ==
    /\ pc[c] = "executing"
    /\ "nil" \in Verdicts(execArgs[c], cfg)
    /\ elapsed[c] = cfg.Timeout
    /\ Returned(c, ExecuteReturn("", "Timeout"))

-----------------------------------------------------------------------------
(* The program *)

CallIds == {"c1"}

\* before InitializeTelemetry: no Service, no Initialize call, no exit
NoTelemetryYet ==
    /\ svc = NoService
    /\ sdk = NewSdk
    /\ lastInit = [called |-> FALSE, err |-> "nil",
                   resourceErr |-> "nil", exporterErr |-> "nil"]
    /\ exit = [path |-> "none", shutdown |-> FALSE]

Init ==
    /\ mainpc = "start"
    /\ parseErr = "nil"
    /\ \E level \in AccessLevels : cfg = NewConfig(level)
    /\ pc = [c \in CallIds |-> "idle"]
    /\ handler = [c \in CallIds |-> NoHandler]
    /\ sent = [c \in CallIds |-> NoRequest]
    /\ req = [c \in CallIds |-> NoRequest]
    /\ cancelled = [c \in CallIds |-> FALSE]
    /\ execCount = [c \in CallIds |-> 0]
    /\ execArgs = [c \in CallIds |-> <<>>]
    /\ elapsed = [c \in CallIds |-> 0]
    /\ execRet = [c \in CallIds |-> NoExecuteReturn]
    /\ ret = [c \in CallIds |-> NoReturn]
    /\ sinkBlocked = [c \in CallIds |-> FALSE]
    /\ invocations = <<>>
    /\ env = QuietEnv
    /\ NoTelemetryYet
    /\ top = [t \in {"main"} |-> Idle]

Next ==
    \/ ParseFlags
    \/ InitializeTelemetry
    \/ ServerInitialize
    \/ WithoutTelemetry
    \/ \E c \in Calls : CreateToolHandler(c)
    \/ \E c \in Calls : CreateToolHandlerWithName(c)
    \/ \E c \in Calls : ExecuteReject(c)
    \/ \E c \in Calls : ExecuteLaunchFailed(c)
    \/ \E c \in Calls : ExecuteRun(c)
    \/ \E c \in Calls : ExecuteExit(c)
    \/ \E c \in Calls : ExecuteTimeout(c)
    \/ \E c \in Calls : AfterExecute(c)
    \/ \E c \in Calls : TrackReturn(c)
    \/ \E c \in Calls : TrackBlocks(c)
    \/ \E c \in Calls : Cancel(c)

Spec == Init /\ [][Next]_vars

\* no handler call has been made
CallsIdle(ids) ==
    /\ pc = [c \in ids |-> "idle"]
    /\ handler = [c \in ids |-> NoHandler]
    /\ sent = [c \in ids |-> NoRequest]
    /\ req = [c \in ids |-> NoRequest]
    /\ cancelled = [c \in ids |-> FALSE]
    /\ execCount = [c \in ids |-> 0]
    /\ execArgs = [c \in ids |-> <<>>]
    /\ elapsed = [c \in ids |-> 0]
    /\ execRet = [c \in ids |-> NoExecuteReturn]
    /\ ret = [c \in ids |-> NoReturn]
    /\ sinkBlocked = [c \in ids |-> FALSE]
    /\ invocations = <<>>

\* main from its start to its exit, for every environment, with no request
MainInit ==
    /\ mainpc = "start"
    /\ parseErr = "nil"
    /\ \E level \in AccessLevels : cfg = NewConfig(level)
    /\ CallsIdle(CallIds)
    /\ env \in Envs
    /\ NoTelemetryYet
    /\ top = [t \in {"main"} |-> Idle]

MainNext ==
    \/ ParseFlags
    \/ InitializeTelemetry
    \/ ServerInitialize
    \/ Signal
    \/ RunReturnsNil
    \/ RunReturnsError

MainSpec == MainInit /\ [][MainNext]_vars

\* the goroutines that call the Service at the same time
ServiceThreads == {"t1", "t2"}

\* one Service, made from any Config, and its callers
TelemetryInit ==
    /\ mainpc = "serving"
    /\ parseErr = "nil"
    /\ cfg = [NewConfig(AccessLevelReadOnly) EXCEPT !.TelemetryService = "sink"]
    /\ CallsIdle(CallIds)
    /\ env = QuietEnv
    /\ \E config \in TelemetryConfigs : svc = NewService(config)
    /\ sdk = NewSdk
    /\ lastInit = [called |-> FALSE, err |-> "nil",
                   resourceErr |-> "nil", exporterErr |-> "nil"]
    /\ exit = [path |-> "none", shutdown |-> FALSE]
    /\ top = [t \in ServiceThreads |-> Idle]

TelemetryNext ==
    \/ \E t \in Threads : ServiceInitialize(t)
    \/ \E t \in Threads : ServiceStartActivity(t)
    \/ \E t \in Threads : TrackToolInvocation(t)
    \/ \E t \in Threads : TrackServiceStartup(t)
    \/ \E t \in Threads : TrackSpan(t)
    \/ \E t \in Threads : TrackEvent(t)
    \/ \E t \in Threads : ShutdownBegin(t)
    \/ \E t \in Threads : ShutdownEnd(t)

TelemetrySpec == TelemetryInit /\ [][TelemetryNext]_vars

\* the handler calls that are in flight at the same time
ConcCallIds == {"c1", "c2"}

\* the requests of the concurrent calls: no namespace, and of the operations
\* one that is permitted, one that is denied and one that is no string
ConcRequests ==
    {r \in Requests :
        /\ r.Arguments.typeName # "<nil>"
        /\ "namespace" \notin DOMAIN r.Arguments.m
        /\ "operation" \in DOMAIN r.Arguments.m =>
               r.Arguments.m["operation"] \in
                   {StrVal("get"), StrVal("delete"), IntVal}}

\* the server as it serves: --access-level readonly --timeout 1, telemetry on
ConcInit ==
    /\ mainpc = "serving"
    /\ parseErr = "nil"
    /\ cfg = [NewConfig(AccessLevelReadOnly) EXCEPT !.Timeout = 1,
                                                    !.TelemetryService = "sink"]
    /\ CallsIdle(ConcCallIds)
    /\ env = QuietEnv
    /\ svc = [NoService EXCEPT !.isInitialized = TRUE]
    /\ sdk = NewSdk
    /\ lastInit = [called |-> TRUE, err |-> "nil",
                   resourceErr |-> "nil", exporterErr |-> "nil"]
    /\ exit = [path |-> "none", shutdown |-> FALSE]
    /\ top = [t \in {"main"} |-> [Idle EXCEPT !.op = "TrackServiceStartup",
                                              !.sawInit = TRUE]]

ConcNext ==
    \/ \E c \in Calls, r \in ConcRequests :
           HandlerCall(c, [kind |-> "CreateToolHandler", toolName |-> ""], r)
    \/ \E c \in Calls, t \in ToolNames, r \in ConcRequests :
           HandlerCall(c, [kind |-> "CreateToolHandlerWithName",
                           toolName |-> t], r)
    \/ \E c \in Calls : ExecuteReject(c)
    \/ \E c \in Calls : ExecuteLaunchFailed(c)
    \/ \E c \in Calls : ExecuteRun(c)
    \/ \E c \in Calls : ExecuteExit(c)
    \/ \E c \in Calls : ExecuteTimeout(c)
    \/ \E c \in Calls : AfterExecute(c)
    \/ \E c \in Calls : TrackReturn(c)

ConcSpec == ConcInit /\ [][ConcNext]_vars

-----------------------------------------------------------------------------
(* Properties *)

\* the tracking calls made for call c
InvocationsOf(c) ==
    {i \in 1..Len(invocations) : invocations[i].call = c}

\* the request of call c carried a map
SentMap(c) == sent[c].Arguments.typeName = "map[string]interface {}"

\* executor.Execute has returned to call c
Executed(c) ==
    execCount[c] > 0 /\ pc[c] \in {"executed", "tracking", "done"}

\* C1: with a telemetry sink, a handler call makes at most one tracking call,
\* and exactly one by the time it returns, whatever its outcome.
C1_TrackedExactlyOnce ==
    \A c \in Calls :
        cfg.TelemetryService # "nil" =>
            /\ Cardinality(InvocationsOf(c)) <= 1
            /\ ret[c].returned => Cardinality(InvocationsOf(c)) = 1

C1_Witness ==
    \E c \in Calls :
        /\ cfg.TelemetryService # "nil"
        /\ ret[c].returned
        /\ ~SentMap(c)
        /\ handler[c].kind = "CreateToolHandlerWithName"
        /\ Cardinality(InvocationsOf(c)) = 1

\* C2: whatever the handler returns is a non-nil result with a nil error: an
\* error result with the error's text when the arguments are not a map or
\* the executor failed, else a text result with the executor's output.
C2_ResultNeverError ==
    \A c \in Calls :
        ret[c].returned =>
            /\ ret[c].err = "nil"
            /\ ~ret[c].result.isNil
            /\ IF ~SentMap(c)
               THEN /\ ret[c].result.IsError
                    /\ ret[c].result.text \in
                         {"arguments must be a map[string]interface{}, got string",
                          "arguments must be a map[string]interface{}, got <nil>"}
               ELSE IF execRet[c].err # "nil"
               THEN /\ ret[c].result.IsError
                    /\ ret[c].result.text = execRet[c].err
               ELSE /\ ~ret[c].result.IsError
                    /\ ret[c].result.text = execRet[c].result

C2_Witness ==
    \E c \in Calls :
        /\ ret[c].returned
        /\ execCount[c] = 1
        /\ execRet[c].err = "ExecutionFailed"
        /\ ret[c].result.IsError

\* C3: the success flag of a call's telemetry record is true iff the
\* executor was invoked and returned no error, and it is the negation of
\* the returned result being an error result.
C3_SuccessFlag ==
    \A i \in 1..Len(invocations) :
        LET c == invocations[i].call
        IN /\ invocations[i].success <=>
                  (Executed(c) /\ execRet[c].err = "nil")
           /\ ~SentMap(c) => ~invocations[i].success
           /\ ret[c].returned =>
                  (invocations[i].success <=> ~ret[c].result.IsError)

C3_Witness ==
    \E i \in 1..Len(invocations) :
        /\ ~invocations[i].success
        /\ execRet[invocations[i].call].err = "AccessDenied"
        /\ ret[invocations[i].call].returned

\* C4: with no telemetry sink no tracking call is made, the handler never
\* waits for one, and the result is the one the outcome determines: an
\* error result only for non-map arguments or an executor error.
C4_NoSinkSameResult ==
    cfg.TelemetryService = "nil" =>
        /\ invocations = <<>>
        /\ \A c \in Calls :
               /\ pc[c] \notin {"tracking", "tracking_invalid"}
               /\ ret[c].returned =>
                      /\ ret[c].err = "nil"
                      /\ ret[c].result.IsError <=>
                             (~SentMap(c) \/ execRet[c].err # "nil")
                      /\ (SentMap(c) /\ execRet[c].err = "nil") =>
                             ret[c].result = NewToolResultText(execRet[c].result)

C4_Witness ==
    \E c \in Calls :
        /\ cfg.TelemetryService = "nil"
        /\ mainpc = "serving"
        /\ ret[c].returned
        /\ ret[c].result = NewToolResultText("pod-list")

\* C5: a call whose executor has completed can always go on to return its
\* response: it is never left waiting on the telemetry sink.
C5_SinkNeverBlocksResponse ==
    \A c \in Calls :
        pc[c] \in {"tracking", "tracking_invalid"} => ~sinkBlocked[c]

\* C6: once the caller's ctx is cancelled while the executor runs, the
\* execution stops: the subprocess gets no more running time and the call
\* does not run on to its own timeout.
C6_CancelStopsExecution ==
    [][\A c \in CallIds :
          (cancelled[c] /\ pc[c] = "executing") =>
              /\ elapsed'[c] = elapsed[c]
              /\ execRet'[c].err # "Timeout"]_vars

\* C7: every telemetry record of a call through a handler built by
\* CreateToolHandlerWithName carries the injected tool name.
C7_InjectedNameRecorded ==
    \A i \in 1..Len(invocations) :
        handler[invocations[i].call].kind = "CreateToolHandlerWithName" =>
            invocations[i].toolName = handler[invocations[i].call].toolName

StageRank(p) ==
    CASE p = "idle" -> 0
      [] p = "executing" -> 1
      [] p = "executed" -> 2
      [] p \in {"tracking", "tracking_invalid"} -> 3
      [] p = "done" -> 4

\* C8: a call only moves forward through its stages; the executor is entered
\* at most once per call and never for arguments that are not a map; a call
\* that has returned changes no more.
C8_ForwardOnly ==
    [][\A c \in CallIds :
          /\ StageRank(pc'[c]) >= StageRank(pc[c])
          /\ execCount'[c] >= execCount[c]
          /\ execCount'[c] <= 1
          /\ sent'[c].Arguments.typeName # "map[string]interface {}" =>
                 execCount'[c] = 0
          /\ execRet[c].err # "nil" => execRet'[c] = execRet[c]
          /\ pc[c] = "done" =>
                 /\ pc'[c] = "done"
                 /\ ret'[c] = ret[c]
                 /\ execCount'[c] = execCount[c]]_vars

C8_Witness ==
    \E c \in Calls :
        /\ pc[c] = "done"
        /\ execCount[c] = 1
        /\ execRet[c].err = "LaunchFailed"

\* C9: ParseFlags succeeds exactly for "readonly", "readwrite" and "admin"
\* and then SecurityConfig.AccessLevel is the matching level; for any other
\* string it fails and leaves SecurityConfig and AdditionalTools as they were.
C9_ParseFlagsAccessLevel ==
    [][(mainpc = "start" /\ mainpc' # "start") =>
          /\ (parseErr' = "nil") <=>
                 (cfg'.AccessLevel \in {"readonly", "readwrite", "admin"})
          /\ (parseErr' # "nil") <=> (mainpc' = "exit")
          /\ cfg'.AccessLevel = "readonly" =>
                 cfg'.SecurityConfig.AccessLevel = AccessLevelReadOnly
          /\ cfg'.AccessLevel = "readwrite" =>
                 cfg'.SecurityConfig.AccessLevel = AccessLevelReadWrite
          /\ cfg'.AccessLevel = "admin" =>
                 cfg'.SecurityConfig.AccessLevel = AccessLevelAdmin
          /\ parseErr' # "nil" =>
                 /\ cfg'.SecurityConfig = cfg.SecurityConfig
                 /\ cfg'.AdditionalTools = cfg.AdditionalTools]_vars

C9_Witness ==
    /\ mainpc = "exit"
    /\ parseErr # "nil"
    /\ cfg.AccessLevel = "READONLY"

\* the pairs (granted, required) with granted >= required
Permitted ==
    {<<AccessLevelReadOnly, AccessLevelReadOnly>>,
     <<AccessLevelReadWrite, AccessLevelReadOnly>>,
     <<AccessLevelReadWrite, AccessLevelReadWrite>>,
     <<AccessLevelAdmin, AccessLevelReadOnly>>,
     <<AccessLevelAdmin, AccessLevelReadWrite>>,
     <<AccessLevelAdmin, AccessLevelAdmin>>}

\* the level --access-level names
Granted ==
    CASE cfg.AccessLevel = "readonly" -> AccessLevelReadOnly
      [] cfg.AccessLevel = "readwrite" -> AccessLevelReadWrite
      [] cfg.AccessLevel = "admin" -> AccessLevelAdmin

\* C10: for a call to an enabled tool, the executor fails with AccessDenied
\* iff the granted level is below the level the operation requires, and the
\* subprocess only ever runs when the granted level suffices.
C10_AccessCheck ==
    \A c \in Calls :
        LET required == RequiredLevel(ExecTool(execArgs[c]),
                                      Operation(execArgs[c]))
        IN /\ (Executed(c) /\ <<ExecTool(execArgs[c])>> \in EnabledTools(cfg)) =>
                  ((execRet[c].err = "AccessDenied")
                       <=> (<<Granted, required>> \notin Permitted))
           /\ (execCount[c] = 1 /\ elapsed[c] > 0) =>
                  <<Granted, required>> \in Permitted

C10_Witness ==
    \E c \in Calls :
        /\ cfg.AccessLevel = "readonly"
        /\ Operation(execArgs[c]) = "delete"
        /\ ExecTool(execArgs[c]) = "kubectl"
        /\ pc[c] = "done"
        /\ execRet[c].err = "AccessDenied"

\* the namespaces --allow-namespaces names
FlagNamespaces ==
    {cfg.AllowNamespaces[i] : i \in 1..Len(cfg.AllowNamespaces)} \ {",", " "}

\* the request of call c names a namespace outside the configured list
NamesOutside(c) ==
    /\ "namespace" \in DOMAIN execArgs[c]
    /\ execArgs[c]["namespace"].v \notin FlagNamespaces

\* C11 as stated: with a non-empty --allow-namespaces every call that names
\* a namespace outside it fails with NamespaceNotAllowed.
C11_AlwaysNamespaceNotAllowed ==
    \A c \in Calls :
        (Executed(c) /\ cfg.AllowNamespaces # <<>> /\ NamesOutside(c)) =>
            execRet[c].err = "NamespaceNotAllowed"

\* C11: with an empty --allow-namespaces no call fails with
\* NamespaceNotAllowed; with a non-empty one a call that names a namespace
\* outside it never runs a subprocess and, once it has passed the tool and
\* access checks, fails with NamespaceNotAllowed.
C11_NamespaceGuard ==
    \A c \in Calls :
        Executed(c) =>
            /\ cfg.AllowNamespaces = <<>> =>
                   execRet[c].err # "NamespaceNotAllowed"
            /\ (cfg.AllowNamespaces # <<>> /\ NamesOutside(c)) =>
                   /\ elapsed[c] = 0
                   /\ execRet[c].err \in
                          {"ToolNotEnabled", "AccessDenied", "NamespaceNotAllowed"}
                   /\ (/\ <<ExecTool(execArgs[c])>> \in EnabledTools(cfg)
                       /\ <<Granted, RequiredLevel(ExecTool(execArgs[c]),
                                                   Operation(execArgs[c]))>>
                              \in Permitted) =>
                          execRet[c].err = "NamespaceNotAllowed"

C11_Witness ==
    \E c \in Calls :
        /\ cfg.AllowNamespaces # <<>>
        /\ NamesOutside(c)
        /\ pc[c] = "done"
        /\ execRet[c].err = "NamespaceNotAllowed"

\* what a handler may change of the request it was given: the "_tool_name"
\* entry of the argument map, and nothing else
SameButToolName(now, before) ==
    /\ now.Name = before.Name
    /\ now.Arguments.typeName = before.Arguments.typeName
    /\ DOMAIN now.Arguments.m \ {"_tool_name"} =
           DOMAIN before.Arguments.m \ {"_tool_name"}
    /\ \A k \in DOMAIN before.Arguments.m \ {"_tool_name"} :
           now.Arguments.m[k] = before.Arguments.m[k]

\* C12: while requests are served no step changes the configuration, and a
\* handler call changes nothing of its request but the "_tool_name" entry
\* of the argument map.
C12_ConfigReadOnly ==
    [][mainpc = "serving" =>
          /\ cfg' = cfg
          /\ \A c \in CallIds :
                 pc'[c] # "idle" => SameButToolName(req'[c], sent'[c])]_vars

C12_Witness ==
    \E c \in Calls :
        /\ pc[c] = "done"
        /\ handler[c].kind = "CreateToolHandlerWithName"
        /\ req[c] # sent[c]
        /\ "operation" \in DOMAIN req[c].Arguments.m

\* the "operation" argument of the request as sent, "" when it is missing,
\* not a string, or the arguments are not a map
SentOperation(c) ==
    IF /\ SentMap(c)
       /\ "operation" \in DOMAIN sent[c].Arguments.m
       /\ sent[c].Arguments.m["operation"].t = "string"
    THEN sent[c].Arguments.m["operation"].v
    ELSE ""

\* the methods of the Service that track
TrackingOps == {"TrackToolInvocation", "TrackServiceStartup"}

\* C13: the Service starts with the flag false; an Initialize that returns
\* nil leaves it true and a Shutdown that returns nil leaves it false; a
\* Shutdown that finds the Service not initialized returns nil and changes
\* neither the Service nor what it points to; no step of a tracking method
\* or of StartActivity changes the flag.
C13_FlagLifecycle ==
    /\ ~svc.isInitialized
    /\ [][\A t \in ServiceThreads :
              top'[t] # top[t] =>
                  /\ (top'[t].op = "Initialize" /\ top'[t].err = "nil") =>
                         svc'.isInitialized
                  /\ (/\ top'[t].op = "Shutdown"
                      /\ top'[t].at = "idle"
                      /\ top'[t].err = "nil") => ~svc'.isInitialized
                  /\ (/\ top'[t].op = "Shutdown"
                      /\ top[t].at = "idle"
                      /\ ~svc.isInitialized) =>
                         /\ top'[t].at = "idle"
                         /\ top'[t].err = "nil"
                         /\ svc' = svc
                         /\ sdk' = sdk
                  /\ top'[t].op \in TrackingOps \cup {"StartActivity"} =>
                         svc'.isInitialized = svc.isInitialized]_vars

C13_Witness ==
    \E t \in Threads :
        /\ top[t].op = "Shutdown"
        /\ top[t].at = "idle"
        /\ top[t].sawInit
        /\ top[t].err = "nil"
        /\ svc.tracerProvider # "nil"
        /\ svc.appInsightsClient # "nil"
        /\ ~svc.isInitialized

\* C14: a tracking method entered while the Service is not initialized
\* returns at once and emits neither a span nor an event; StartActivity
\* called then returns the caller's context and a span that is not nil.
C14_SilentWhenNotInitialized ==
    \A t \in Threads :
        ~top[t].sawInit =>
            /\ top[t].op \in TrackingOps =>
                   top[t].at = "idle" /\ top[t].emitted = {}
            /\ top[t].op = "StartActivity" =>
                   top[t].ctx = "caller" /\ top[t].span \in {"noop", "started"}

C14_Witness ==
    \E t \in Threads :
        /\ top[t].op = "TrackToolInvocation"
        /\ ~top[t].sawInit
        /\ top[t].at = "idle"
        /\ svc.tracer # "nil"
        /\ svc.appInsightsClient # "nil"
        /\ ~svc.isInitialized

\* C15: Initialize fails only when the resource cannot be made, so with a
\* failed exporter alone it returns nil and the Service is initialized; and
\* whatever Initialize returned, InitializeTelemetry leaves a
\* TelemetryService and main goes on to initialize the server.
C15_TelemetryNeverFatal ==
    lastInit.called =>
        /\ lastInit.resourceErr = "nil" => lastInit.err = "nil"
        /\ (lastInit.err = "nil" /\ mainpc \in {"telemetry", "serving"}) =>
               svc.isInitialized
        /\ cfg.TelemetryService # "nil"
        /\ mainpc \in {"telemetry", "serving", "exit"}
        /\ mainpc = "exit" => exit.path # "none"

C15_Witness ==
    /\ lastInit.called
    /\ lastInit.exporterErr # "nil"
    /\ lastInit.resourceErr = "nil"
    /\ lastInit.err = "nil"
    /\ svc.isInitialized
    /\ svc.tracer # "nil"
    /\ mainpc = "serving"

\* C16: when main has exited after InitializeTelemetry, by
\* whichever path, Shutdown was invoked.
C16_ShutdownOnEveryExit ==
    (mainpc = "exit" /\ exit.path # "none") => exit.shutdown

\* the tool name the handler of call c records, from c's own handler and
\* request
OwnToolName(c) ==
    IF SentMap(c) /\ handler[c].kind = "CreateToolHandlerWithName"
    THEN handler[c].toolName
    ELSE sent[c].Name

\* the errors executor.Execute can return to call c, from c's own arguments
\* and the configuration
OwnOutcomes(c) ==
    (Verdicts(execArgs[c], cfg) \ {"nil"})
    \cup (IF "nil" \in Verdicts(execArgs[c], cfg)
          THEN {"nil", "LaunchFailed", "ExecutionFailed", "Timeout"}
          ELSE {})

\* the result the handler of call c returns, from c's own request and the
\* outcome of c's own execution
OwnResult(c) ==
    IF ~SentMap(c)
    THEN [isNil |-> FALSE, IsError |-> TRUE,
          text |-> ArgumentsError(sent[c].Arguments)]
    ELSE IF execRet[c].err # "nil"
    THEN [isNil |-> FALSE, IsError |-> TRUE, text |-> execRet[c].err]
    ELSE [isNil |-> FALSE, IsError |-> FALSE, text |-> execRet[c].result]

\* C17: with two calls in flight on one configuration and one sink, each
\* call makes one tracking call, so two returned calls leave two records;
\* the record and the result of a call are those of its own request and of
\* its own execution, in every interleaving.
C17_CallsIsolated ==
    /\ \A c \in Calls :
           /\ Cardinality(InvocationsOf(c)) <= 1
           /\ ret[c].returned => Cardinality(InvocationsOf(c)) = 1
           /\ ret[c].returned =>
                  ret[c].result = OwnResult(c) /\ ret[c].err = "nil"
           /\ Executed(c) => execRet[c].err \in OwnOutcomes(c)
    /\ (\A c \in Calls : ret[c].returned) =>
           Len(invocations) = Cardinality(Calls)
    /\ \A i \in 1..Len(invocations) :
           LET c == invocations[i].call
           IN /\ invocations[i].toolName = OwnToolName(c)
              /\ invocations[i].operation = SentOperation(c)
              /\ invocations[i].success =
                     (SentMap(c) /\ execRet[c].err = "nil")

C17_Witness ==
    /\ Cardinality(Calls) = 2
    /\ \A c \in Calls : ret[c].returned
    /\ Len(invocations) = 2
    /\ invocations[1].success # invocations[2].success
    /\ invocations[1].toolName # invocations[2].toolName
    /\ \E c \in Calls : pc[c] = "done" /\ execRet[c].err = "AccessDenied"

\* C18: the operation of a call's telemetry record is its "operation"
\* argument when that is a string and "" otherwise; for map arguments the
\* tracking call is made after the executor has returned, and with a sink
\* every returned call has made it.
C18_RecordedOperation ==
    /\ \A i \in 1..Len(invocations) :
           LET c == invocations[i].call
           IN /\ invocations[i].operation = SentOperation(c)
              /\ SentMap(c) => Executed(c) /\ pc[c] # "executed"
    /\ \A c \in Calls :
           (cfg.TelemetryService # "nil" /\ ret[c].returned) =>
               InvocationsOf(c) # {}

C18_Witness ==
    \E i \in 1..Len(invocations) :
        /\ SentMap(invocations[i].call)
        /\ "operation" \in DOMAIN sent[invocations[i].call].Arguments.m
        /\ sent[invocations[i].call].Arguments.m["operation"].t = "int"
        /\ invocations[i].operation = ""
        /\ ret[invocations[i].call].returned

\* C19: a handler built by CreateToolHandlerWithName gives the executor the
\* caller's map with "_tool_name" set to the injected name, whatever the
\* caller put there; one built by CreateToolHandler gives it the caller's
\* map as it is.
C19_ToolNameInjected ==
    \A c \in Calls :
        execCount[c] > 0 =>
            IF handler[c].kind = "CreateToolHandlerWithName"
            THEN /\ DOMAIN execArgs[c] =
                        DOMAIN sent[c].Arguments.m \cup {"_tool_name"}
                 /\ execArgs[c]["_tool_name"] =
                        [t |-> "string", v |-> handler[c].toolName]
                 /\ \A k \in DOMAIN sent[c].Arguments.m \ {"_tool_name"} :
                        execArgs[c][k] = sent[c].Arguments.m[k]
            ELSE execArgs[c] = sent[c].Arguments.m

C19_Witness ==
    \E c \in Calls :
        /\ handler[c].kind = "CreateToolHandlerWithName"
        /\ handler[c].toolName = "kubectl"
        /\ "_tool_name" \in DOMAIN sent[c].Arguments.m
        /\ sent[c].Arguments.m["_tool_name"].v = "helm"
        /\ execCount[c] = 1
        /\ execArgs[c]["_tool_name"].v = "kubectl"

\* C20: no tracking method submits an event to a channel Shutdown
\* has closed or starts a span on a provider Shutdown has shut down.
C20_NothingAfterShutdown ==
    \A t \in Threads : \A e \in top[t].emitted : ~e.late

=============================================================================
